---- MODULE Spec2Model ----
(***************************************************************************)
(* Model of the todo task server.  The owner identifier (userId) of a task *)
(* IS the bcrypt hash of the owner's password; a returning user is found   *)
(* by verifying the password against every distinct userId of the store.   *)
(*                                                                         *)
(*   src/api/mcp.js         HTTP/JSON-RPC handler, password in every call  *)
(*   src/unnamed/part_002   REST handler, password in the x-password header*)
(*   src/server.js          stdio server, hash cached on the machine       *)
(*   src/lib/auth.js        the cache file and the bcrypt wrappers         *)
(*                                                                         *)
(* A bcrypt hash is modelled by what bcrypt.compare can observe of it: the *)
(* password it was made from and the salt embedded in it.  bcrypt.hash     *)
(* draws a random 128-bit salt; the model draws the least salt that no     *)
(* hash of the same password held anywhere (store, request locals, cache   *)
(* files) carries, so a new hash never equals a hash that exists.          *)
(*                                                                         *)
(* A handler is cut at its awaits on the store; what runs between two such *)
(* awaits touches only the handler's locals and is one step.  The tool     *)
(* name and the arguments other than the password are first read by the    *)
(* step that executes the tool and are drawn there.                        *)
(***************************************************************************)
EXTENDS Integers, Sequences, FiniteSets, TLC

\* ------------------------------------------------------------------ bounds
\* Number of documents the Task collection holds at a time.
MaxTasks == 2

\* Concurrent invocations of the JSON-RPC handler; machines of the stdio server.
Req == {1, 2}
Dev == {1, 2}

\* Passwords a caller may send: missing/empty, too short, and two valid ones.
Passwords == {"", "xy", "abcd", "wxyz"}

\* "min 4 chars"
MinPasswordLength == 4

\* Task titles and the search patterns of complete_task and delete_task, as
\* sequences of words: one pattern occurs in the title, the other does not.
Titles == {<<"buy", "milk">>}
Patterns == {<<"milk">>, <<"tea">>}

Filters == {"all", "pending", "completed"}

\* ------------------------------------------------------------------ bcrypt
\* null where the code holds a hash or null (same shape as a hash: TLC
\* compares only like with like).
NoHash == [secret |-> "", salt |-> 0]

\* The empty string where the code expects a hash.
EmptyString == [secret |-> "", salt |-> -1]

\* What auth.json holds when it is not a saved hash: text JSON.parse rejects,
\* or JSON without a hash field.
Unparseable == [secret |-> "", salt |-> -2]
NoHashField == [secret |-> "", salt |-> -3]

IsHash(h) == h.salt > 0

\* Faulty variant of BcryptHash: the password comes back as it went in (a
\* string that is not a hash: no salt).
BcryptHashPlain(password, salt) == [secret |-> password, salt |-> 0]

\* Faulty variant of BcryptHash: every call uses the same salt.
BcryptHashFixedSalt(password, salt) == [secret |-> password, salt |-> 1]

\* bcrypt.hash(password, 12), with the salt the call drew.
BcryptHash(password, salt) == [secret |-> password, salt |-> salt]

\* bcrypt.compare(password, hash): recomputes with the salt embedded in hash.
BcryptCompare(password, hash) == IsHash(hash) /\ hash.secret = password

VARIABLES
    tasks,          \* the Task collection: a set of documents
    connected,      \* mcp.js: module-level flag of connectDB
    req,            \* mcp.js: per invocation of handler, position and locals
    restConnected,  \* part_002: module-level flag of connectDB
    rest,           \* part_002: the invocation of handler, position and locals
    file,           \* per machine: ~/.mcp-todo/auth.json
    dbConnected,    \* per machine: lib/db.js module-level flag of connectDB
    dev,            \* server.js: per machine, the tool call in progress
    out,            \* the response sent by the step just taken, if it sent one
    fault,          \* the step just taken is a store call that threw
    call            \* lib/auth.js: the cache function just called, its result

vars ==
    <<tasks, connected, req, restConnected, rest, file, dbConnected, dev, out,
      fault, call>>

mcpVars == <<connected, req>>
restVars == <<restConnected, rest>>
devVars == <<file, dbConnected, dev>>

\* ------------------------------------------------------------------ store
\* Task.distinct("userId")
DistinctUserIds(ts) == {t.userId : t \in ts}

\* The orders in which the store may return a set of values.
Orderings(S) ==
    {s \in [1..Cardinality(S) -> S] :
        \A i, j \in 1..Cardinality(S) : s[i] = s[j] => i = j}

\* { title: { $regex: pattern, $options: "i" } }: pattern occurs in title.
Matches(pattern, title) ==
    \E i \in 0..(Len(title) - Len(pattern)) :
        \A k \in 1..Len(pattern) : title[i + k] = pattern[k]

\* Task.countDocuments({ userId })
CountAll(ts, userId) == Cardinality({t \in ts : t.userId = userId})

\* Faulty variant of FindTasks: the query leaves out userId.
FindTasksAnyOwner(ts, userId, filter) ==
    {t \in ts : /\ (filter = "pending" => ~t.completed)
                /\ (filter = "completed" => t.completed)}

\* Task.find(query) of list_tasks: { userId } and the completed filter.
FindTasks(ts, userId, filter) ==
    {t \in ts : /\ t.userId = userId
                /\ (filter = "pending" => ~t.completed)
                /\ (filter = "completed" => t.completed)}

\* A fresh _id: the least not held by a stored document.
FreshId(ts) ==
    CHOOSE n \in 1..(Cardinality(ts) + 1) :
        /\ \A t \in ts : t.id # n
        /\ \A m \in 1..(n - 1) : \E t \in ts : t.id = m

\* Faulty variant of NewTask: the document is created without its owner.
NewTaskUnowned(id, userId, title) ==
    [id |-> id, userId |-> NoHash, title |-> title,
     completed |-> FALSE, completedAt |-> "null"]

\* Task.create({ userId, title, ... }) with the schema's defaults.
NewTask(id, userId, title) ==
    [id |-> id, userId |-> userId, title |-> title,
     completed |-> FALSE, completedAt |-> "null"]

\* What a tool does to the store and answers: [tasks, kind, docs, n, filter].
Outcome(ts, kind, docs, n) ==
    [tasks |-> ts, kind |-> kind, docs |-> docs, n |-> n, filter |-> "all"]

\* case "add_task"
AddTask(ts, userId) ==
    {Outcome(ts \cup {NewTask(FreshId(ts), userId, title)}, "task_created",
             {NewTask(FreshId(ts), userId, title)}, 0) :
        title \in {x \in Titles : Cardinality(ts) < MaxTasks}}

\* case "list_tasks"
ListTasks(ts, userId) ==
    {[Outcome(ts, "list", FindTasks(ts, userId, filter), CountAll(ts, userId))
        EXCEPT !.filter = filter] : filter \in Filters}

\* Faulty variant of CompleteTask: the update sets completed only.
CompleteTaskNoStamp(ts, userId) ==
    UNION {
        LET found == {t \in ts : /\ t.userId = userId
                                 /\ ~t.completed
                                 /\ Matches(title, t.title)}
        IN  IF found = {}
            THEN {Outcome(ts, "no_pending_match", {}, 0)}
            ELSE {Outcome((ts \ {t}) \cup {[t EXCEPT !.completed = TRUE]},
                          "completed", {[t EXCEPT !.completed = TRUE]}, 0) :
                    t \in found}
        : title \in Patterns}

\* Faulty variant of CompleteTask: the update replaces the document and
\* leaves out userId.
CompleteTaskOverwrites(ts, userId) ==
    UNION {
        LET found == {t \in ts : /\ t.userId = userId
                                 /\ ~t.completed
                                 /\ Matches(title, t.title)}
        IN  IF found = {}
            THEN {Outcome(ts, "no_pending_match", {}, 0)}
            ELSE {Outcome((ts \ {t}) \cup
                            {[t EXCEPT !.completed = TRUE, !.completedAt = "iso",
                                       !.userId = NoHash]},
                          "completed",
                          {[t EXCEPT !.completed = TRUE, !.completedAt = "iso",
                                     !.userId = NoHash]},
                          0) : t \in found}
        : title \in Patterns}

\* case "complete_task": findOneAndUpdate of one pending task that matches
CompleteTask(ts, userId) ==
    UNION {
        LET found == {t \in ts : /\ t.userId = userId
                                 /\ ~t.completed
                                 /\ Matches(title, t.title)}
        IN  IF found = {}
            THEN {Outcome(ts, "no_pending_match", {}, 0)}
            ELSE {Outcome((ts \ {t}) \cup
                            {[t EXCEPT !.completed = TRUE, !.completedAt = "iso"]},
                          "completed",
                          {[t EXCEPT !.completed = TRUE, !.completedAt = "iso"]},
                          0) : t \in found}
        : title \in Patterns}

\* case "delete_task": findOneAndDelete of one task that matches
DeleteTask(ts, userId) ==
    UNION {
        LET found == {t \in ts : t.userId = userId /\ Matches(title, t.title)}
        IN  IF found = {}
            THEN {Outcome(ts, "no_match", {}, 0)}
            ELSE {Outcome(ts \ {t}, "deleted", {}, 0) : t \in found}
        : title \in Patterns}

\* Faulty variant of ClearDone: deleteMany({ userId })
ClearDoneAllOfOwner(ts, userId) ==
    LET mine == {t \in ts : t.userId = userId}
    IN  {Outcome(ts \ mine, "cleared", {}, Cardinality(mine))}

\* Faulty variant of ClearDone: deleteMany({ completed: true })
ClearDoneAnyOwner(ts, userId) ==
    LET done == {t \in ts : t.completed}
    IN  {Outcome(ts \ done, "cleared", {}, Cardinality(done))}

\* case "clear_done": deleteMany({ userId, completed: true })
ClearDone(ts, userId) ==
    LET done == {t \in ts : t.userId = userId /\ t.completed}
    IN  {Outcome(ts \ done, "cleared", {}, Cardinality(done))}

TaskTools ==
    {"add_task", "list_tasks", "complete_task", "delete_task", "clear_done"}

TaskTool(tool, ts, userId) ==
    CASE tool = "add_task" -> AddTask(ts, userId)
      [] tool = "list_tasks" -> ListTasks(ts, userId)
      [] tool = "complete_task" -> CompleteTask(ts, userId)
      [] tool = "delete_task" -> DeleteTask(ts, userId)
      [] tool = "clear_done" -> ClearDone(ts, userId)

\* ------------------------------------------------------- lib/auth.js cache
NoFile == [exists |-> FALSE, hash |-> NoHash]

\* Faulty variant of GetStoredHash: the file is never read back.
GetStoredHashNull(f) == NoHash

\* Faulty variant of GetStoredHash: no try/catch, no || null.
GetStoredHashNoCatch(f) == IF ~f.exists THEN NoHash ELSE f.hash

\* getStoredHash(): null when there is no file, null from the catch when
\* JSON.parse throws, else data.hash || null
GetStoredHash(f) ==
    IF ~f.exists THEN NoHash
    ELSE IF f.hash = Unparseable THEN NoHash
    ELSE IF f.hash \in {NoHashField, EmptyString} THEN NoHash
    ELSE f.hash

\* saveHash(hash): writeFileSync of { hash, savedAt }
SaveHash(f, hash) == [exists |-> TRUE, hash |-> hash]

\* Faulty variant of ClearHash: unlink without the existsSync test.
ClearHashNoCheck(f) == [file |-> NoFile, threw |-> ~f.exists]

\* clearHash(): unlink when the file exists; [file, threw]
ClearHash(f) ==
    IF f.exists THEN [file |-> NoFile, threw |-> FALSE]
    ELSE [file |-> f, threw |-> FALSE]

\* ------------------------------------------------------------------ hashes
\* The hashes held anywhere (and those the record of the cache calls still
\* remembers), and the salt a bcrypt.hash(password) draws now.
HeldHashes ==
    {t.userId : t \in tasks} \cup {req[r].userId : r \in Req}
        \cup {rest.userId} \cup {file[d].hash : d \in Dev}
        \cup {call.arg, call.had, call.prevArg, call.prevHad}

UsedSalts(password) == {h.salt : h \in {g \in HeldHashes : g.secret = password}}

FreshSalt(password) ==
    CHOOSE n \in 1..(Cardinality(UsedSalts(password)) + 1) :
        /\ n \notin UsedSalts(password)
        /\ \A m \in 1..(n - 1) : m \in UsedSalts(password)

\* Index of the first hash of allHashes, from position i on, that the
\* password verifies against; 0 when there is none.
RECURSIVE FirstMatchFrom(_, _, _)
FirstMatchFrom(password, allHashes, i) ==
    IF i > Len(allHashes) THEN 0
    ELSE IF BcryptCompare(password, allHashes[i]) THEN i
    ELSE FirstMatchFrom(password, allHashes, i + 1)

\* Faulty variant of CompareCalls: the loop has no early exit.
CompareCallsNoBreak(password, allHashes) == Len(allHashes)

\* Number of bcrypt.compare calls of a scan that stops at the first match.
CompareCalls(password, allHashes) ==
    IF FirstMatchFrom(password, allHashes, 1) = 0 THEN Len(allHashes)
    ELSE FirstMatchFrom(password, allHashes, 1)

\* ---------------------------------------------------------------- events
\* What the step just taken did that a caller or the store can observe: the
\* identity scan it ran (kind "resolved": the candidates in the order
\* scanned, the bcrypt.compare calls made) or the response it sent.  who is
\* the machine of a stdio server; kind, docs, n and detail (the message of
\* the error caught is part of the body) are what the response body holds;
\* pending and completed are the other two counts of a list_tasks summary
\* where the counts are taken one await at a time (n is its total).
NoOut ==
    [src |-> "none", who |-> 0, tool |-> "none", password |-> "",
     userId |-> NoHash, detail |-> FALSE, pending |-> 0, completed |-> 0,
     minted |-> FALSE, allHashes |-> <<>>, compares |-> 0, store |-> FALSE,
     stage |-> "none", kind |-> "none", docs |-> {}, n |-> 0, filter |-> "all"]

NoCall ==
    [op |-> "none", dev |-> 0, arg |-> NoHash, ret |-> NoHash, threw |-> FALSE,
     had |-> NoHash, prev |-> "none", prevDev |-> 0, prevArg |-> NoHash,
     prevHad |-> NoHash]

\* The locals of an invocation: position, password, resolved userId, whether
\* this invocation hashed it; and what a list_tasks cut at its awaits has
\* got so far: its filter, the tasks found, total and pending.
Idle ==
    [pc |-> "idle", password |-> "", userId |-> NoHash, minted |-> FALSE,
     filter |-> "all", docs |-> {}, total |-> 0, pending |-> 0]

\* A response of kind `kind` to the invocation with locals l; store: the
\* step awaited a store call (every step but the one the call arrives in).
Response(src, l, tool, kind, docs, n, filter) ==
    [NoOut EXCEPT !.src = src, !.tool = tool, !.password = l.password,
                  !.userId = l.userId, !.minted = l.minted, !.stage = l.pc,
                  !.store = (l.pc # "idle"),
                  !.kind = kind, !.docs = docs, !.n = n, !.filter = filter]

\* The scan of allHashes for l.password ended with res.
Resolved(src, l, allHashes, res) ==
    [NoOut EXCEPT !.src = src, !.password = l.password, !.userId = res.userId,
                  !.minted = res.minted, !.allHashes = allHashes,
                  !.compares = res.compares, !.stage = l.pc, !.store = TRUE,
                  !.kind = "resolved"]

\* ------------------------------------------------------------------ mcp.js
\* Faulty variants of ResolveUserId: one hashes without scanning, the other
\* falls back to the first candidate when none verified.
ResolveUserIdAlwaysNew(password, allHashes, salt) ==
    [userId |-> BcryptHash(password, salt), minted |-> TRUE,
     compares |-> Len(allHashes)]

ResolveUserIdNoHash(password, allHashes, salt) ==
    LET i == FirstMatchFrom(password, allHashes, 1)
    IN  IF i # 0
        THEN [userId |-> allHashes[i], minted |-> FALSE, compares |-> i]
        ELSE [userId |-> IF allHashes = <<>> THEN BcryptHash(password, salt)
                         ELSE allHashes[1],
              minted |-> allHashes = <<>>, compares |-> Len(allHashes)]

\* resolveUserId after the distinct query: the scan, then the hash when no
\* candidate verified.
ResolveUserId(password, allHashes, salt) ==
    LET i == FirstMatchFrom(password, allHashes, 1)
    IN  IF i # 0
        THEN [userId |-> allHashes[i], minted |-> FALSE,
              compares |-> CompareCalls(password, allHashes)]
        ELSE [userId |-> BcryptHash(password, salt), minted |-> TRUE,
              compares |-> CompareCalls(password, allHashes)]

Tools == {"setup_password"} \cup TaskTools

\* executeTool -> resolveUserId up to its first await: if (!password) return
\* null, and executeTool answers "Could not authenticate".
ResolveUserIdEntry(r, l) ==
    IF l.password = ""
    THEN /\ out' = Response("mcp", l, "none", "auth_error", {}, 0, "all")
         /\ req' = [req EXCEPT ![r] = Idle]
    ELSE /\ out' = NoOut
         /\ req' = [req EXCEPT ![r] = [l EXCEPT !.pc = "distinct"]]

\* A POST tools/call arrives (it takes the lowest free slot): handler up to
\* its first suspension, which is mongoose.connect when the module is not
\* connected yet and the distinct query of resolveUserId when it is.
HandlerStart(r) ==
    /\ req[r].pc = "idle"
    /\ \A q \in Req : q < r => req[q].pc # "idle"
    /\ \E password \in Passwords :
        IF connected
        THEN ResolveUserIdEntry(r, [Idle EXCEPT !.password = password])
        ELSE /\ req' = [req EXCEPT ![r] = [Idle EXCEPT !.pc = "connectDB",
                                                       !.password = password]]
             /\ out' = NoOut
    /\ fault' = FALSE
    /\ UNCHANGED <<tasks, connected, restVars, devVars, call>>

\* connectDB: await mongoose.connect(...) returns; connected = true.
HandlerConnect(r) ==
    /\ req[r].pc = "connectDB"
    /\ connected' = TRUE
    /\ ResolveUserIdEntry(r, req[r])
    /\ fault' = FALSE
    /\ UNCHANGED <<tasks, restVars, devVars, call>>

\* const allHashes = await Task.distinct("userId"); the scan; the hash.
HandlerResolve(r) ==
    /\ req[r].pc = "distinct"
    /\ \E allHashes \in Orderings(DistinctUserIds(tasks)) :
        LET res == ResolveUserId(req[r].password, allHashes,
                                 FreshSalt(req[r].password))
        IN  /\ req' = [req EXCEPT ![r].pc = "exec", ![r].userId = res.userId,
                                  ![r].minted = res.minted]
            /\ out' = Resolved("mcp", req[r], allHashes, res)
    /\ fault' = FALSE
    /\ UNCHANGED <<tasks, connected, restVars, devVars, call>>

\* Faulty variant of ExecuteTool: setup_password records the userId in the
\* store.
ExecuteToolRegistersOwner(r, tool) ==
    IF tool = "setup_password"
    THEN /\ out' = Response("mcp", req[r], tool,
                            IF CountAll(tasks, req[r].userId) = 0
                            THEN "accepted_new" ELSE "welcome_back",
                            {}, CountAll(tasks, req[r].userId), "all")
         /\ tasks' = IF Cardinality(tasks) < MaxTasks
                     THEN tasks \cup {NewTask(FreshId(tasks), req[r].userId,
                                              <<"buy", "milk">>)}
                     ELSE tasks
    ELSE \E o \in TaskTool(tool, tasks, req[r].userId) :
            /\ tasks' = o.tasks
            /\ out' = Response("mcp", req[r], tool, o.kind, o.docs, o.n, o.filter)

\* executeTool's switch (name), with the userId resolved.
ExecuteTool(r, tool) ==
    IF tool = "setup_password"
    THEN /\ out' = Response("mcp", req[r], tool,
                            IF CountAll(tasks, req[r].userId) = 0
                            THEN "accepted_new" ELSE "welcome_back",
                            {}, CountAll(tasks, req[r].userId), "all")
         /\ UNCHANGED tasks
    ELSE \E o \in TaskTool(tool, tasks, req[r].userId) :
            /\ tasks' = o.tasks
            /\ out' = Response("mcp", req[r], tool, o.kind, o.docs, o.n, o.filter)

HandlerExec(r) ==
    /\ req[r].pc = "exec"
    /\ \E tool \in Tools : ExecuteTool(r, tool)
    /\ req' = [req EXCEPT ![r] = Idle]
    /\ fault' = FALSE
    /\ UNCHANGED <<connected, restVars, devVars, call>>

\* executeTool's switch for every tool but list_tasks.
HandlerExecOther(r) ==
    /\ req[r].pc = "exec"
    /\ \E tool \in Tools \ {"list_tasks"} : ExecuteTool(r, tool)
    /\ req' = [req EXCEPT ![r] = Idle]
    /\ fault' = FALSE
    /\ UNCHANGED <<connected, restVars, devVars, call>>

\* case "list_tasks" one await at a time: const tasks = await Task.find(query)
ListFind(r) ==
    /\ req[r].pc = "exec"
    /\ \E filter \in Filters :
        req' = [req EXCEPT ![r].pc = "countTotal", ![r].filter = filter,
                           ![r].docs = FindTasks(tasks, req[r].userId, filter)]
    /\ out' = NoOut
    /\ fault' = FALSE
    /\ UNCHANGED <<tasks, connected, restVars, devVars, call>>

\* const total = await Task.countDocuments({ userId })
ListCountTotal(r) ==
    /\ req[r].pc = "countTotal"
    /\ req' = [req EXCEPT ![r].pc = "countPending",
                          ![r].total = CountAll(tasks, req[r].userId)]
    /\ out' = NoOut
    /\ fault' = FALSE
    /\ UNCHANGED <<tasks, connected, restVars, devVars, call>>

\* const pending = await Task.countDocuments({ userId, completed: false })
ListCountPending(r) ==
    /\ req[r].pc = "countPending"
    /\ req' = [req EXCEPT ![r].pc = "countCompleted",
                          ![r].pending =
                            Cardinality({t \in tasks :
                                t.userId = req[r].userId /\ ~t.completed})]
    /\ out' = NoOut
    /\ fault' = FALSE
    /\ UNCHANGED <<tasks, connected, restVars, devVars, call>>

\* const completed = await Task.countDocuments({ userId, completed: true });
\* return { summary: { total, pending, completed }, tasks }
ListCountCompleted(r) ==
    /\ req[r].pc = "countCompleted"
    /\ out' = [Response("mcp", req[r], "list_tasks", "list", req[r].docs,
                        req[r].total, req[r].filter)
                EXCEPT !.pending = req[r].pending,
                       !.completed =
                            Cardinality({t \in tasks :
                                t.userId = req[r].userId /\ t.completed})]
    /\ req' = [req EXCEPT ![r] = Idle]
    /\ fault' = FALSE
    /\ UNCHANGED <<tasks, connected, restVars, devVars, call>>

\* Faulty variant of Catch: a failed distinct query is taken for an empty
\* list of candidates.
CatchAsNoOwners(r) ==
    IF req[r].pc = "distinct"
    THEN /\ req' = [req EXCEPT ![r].pc = "exec", ![r].minted = TRUE,
                        ![r].userId = BcryptHash(req[r].password,
                                                 FreshSalt(req[r].password))]
         /\ out' = NoOut
    ELSE /\ out' = [Response("mcp", req[r], "none", "internal_error", {}, 0,
                                 "all") EXCEPT !.detail = TRUE]
         /\ req' = [req EXCEPT ![r] = Idle]

\* handler's catch: { code: -32603, message: "Internal error", data:
\* err.message }
Catch(r) ==
    /\ out' = [Response("mcp", req[r], "none", "internal_error", {}, 0, "all")
                EXCEPT !.detail = TRUE]
    /\ req' = [req EXCEPT ![r] = Idle]

\* The store call the invocation awaits throws.
HandlerStoreError(r) ==
    /\ req[r].pc \in {"connectDB", "distinct", "exec"}
    /\ fault' = TRUE
    /\ Catch(r)
    /\ UNCHANGED <<tasks, connected, restVars, devVars, call>>

\* ---------------------------------------------------------------- part_002
\* The x-password scan: userId = the first hash that matches (break), and
\* if (!userId) userId = await bcrypt.hash(password, 12).
RestResolve(password, allHashes, salt) ==
    LET i == FirstMatchFrom(password, allHashes, 1)
        userId == IF i # 0 THEN allHashes[i] ELSE NoHash
    IN  IF userId = NoHash
        THEN [userId |-> BcryptHash(password, salt), minted |-> TRUE,
              compares |-> CompareCalls(password, allHashes)]
        ELSE [userId |-> userId, minted |-> FALSE,
              compares |-> CompareCalls(password, allHashes)]

\* if (!password) return res.status(401)
RestEntry(l) ==
    IF l.password = ""
    THEN /\ out' = Response("rest", l, "none", "missing_password", {}, 0, "all")
         /\ rest' = Idle
    ELSE /\ out' = NoOut
         /\ rest' = [l EXCEPT !.pc = "distinct"]

\* A request to /api/tasks arrives.
RestStart ==
    /\ rest.pc = "idle"
    /\ \E password \in Passwords :
        IF restConnected
        THEN RestEntry([Idle EXCEPT !.password = password])
        ELSE /\ rest' = [Idle EXCEPT !.pc = "connectDB", !.password = password]
             /\ out' = NoOut
    /\ fault' = FALSE
    /\ UNCHANGED <<tasks, restConnected, mcpVars, devVars, call>>

RestConnect ==
    /\ rest.pc = "connectDB"
    /\ restConnected' = TRUE
    /\ RestEntry(rest)
    /\ fault' = FALSE
    /\ UNCHANGED <<tasks, mcpVars, devVars, call>>

\* const allUserIds = await Task.distinct("userId"); the scan; the hash.
RestScan ==
    /\ rest.pc = "distinct"
    /\ \E allUserIds \in Orderings(DistinctUserIds(tasks)) :
        LET res == RestResolve(rest.password, allUserIds,
                               FreshSalt(rest.password))
        IN  /\ rest' = [rest EXCEPT !.pc = "exec", !.userId = res.userId,
                                    !.minted = res.minted]
            /\ out' = Resolved("rest", rest, allUserIds, res)
    /\ fault' = FALSE
    /\ UNCHANGED <<tasks, restConnected, mcpVars, devVars, call>>

\* GET, POST (with or without a title), DELETE ?done=true, anything else.
RestMethod(method) ==
    CASE method = "GET" ->
            \E o \in ListTasks(tasks, rest.userId) :
                /\ tasks' = o.tasks
                /\ out' = Response("rest", rest, "list_tasks", o.kind, o.docs,
                                   o.n, o.filter)
      [] method = "POST" ->
            \/ /\ out' = Response("rest", rest, "add_task", "title_required",
                                  {}, 0, "all")
               /\ UNCHANGED tasks
            \/ \E o \in AddTask(tasks, rest.userId) :
                /\ tasks' = o.tasks
                /\ out' = Response("rest", rest, "add_task", o.kind, o.docs,
                                   o.n, o.filter)
      [] method = "DELETE" ->
            \E o \in ClearDone(tasks, rest.userId) :
                /\ tasks' = o.tasks
                /\ out' = Response("rest", rest, "clear_done", o.kind, o.docs,
                                   o.n, o.filter)
      [] OTHER ->
            /\ out' = Response("rest", rest, "none", "method_not_allowed",
                               {}, 0, "all")
            /\ UNCHANGED tasks

RestExec ==
    /\ rest.pc = "exec"
    /\ \E method \in {"GET", "POST", "DELETE", "PUT"} : RestMethod(method)
    /\ rest' = Idle
    /\ fault' = FALSE
    /\ UNCHANGED <<restConnected, mcpVars, devVars, call>>

\* catch (err): res.status(500).json({ error: "Server error", detail:
\* err.message })
RestStoreError ==
    /\ rest.pc \in {"connectDB", "distinct", "exec"}
    /\ fault' = TRUE
    /\ out' = [Response("rest", rest, "none", "server_error", {}, 0, "all")
                EXCEPT !.detail = TRUE]
    /\ rest' = Idle
    /\ UNCHANGED <<tasks, restConnected, mcpVars, devVars, call>>

\* --------------------------------------------------------------- server.js
\* The scan of setup_password: matchedHash, or a new hash when none matched.
SetupScan(password, allHashes, salt) ==
    LET i == FirstMatchFrom(password, allHashes, 1)
        matchedHash == IF i # 0 THEN allHashes[i] ELSE NoHash
    IN  IF matchedHash # NoHash
        THEN [userId |-> matchedHash, minted |-> FALSE,
              compares |-> CompareCalls(password, allHashes)]
        ELSE [userId |-> BcryptHash(password, salt), minted |-> TRUE,
              compares |-> CompareCalls(password, allHashes)]

GetLocalUserId(d) == GetStoredHash(file[d])

\* The locals of the tool call in progress on machine d.
DevLocals(d, pc, password) ==
    [pc |-> pc, password |-> password, userId |-> GetLocalUserId(d),
     minted |-> FALSE]

DevResponse(d, pc, password, tool, kind, docs, n, filter, store) ==
    [Response("dev", DevLocals(d, pc, password), tool, kind, docs, n, filter)
        EXCEPT !.who = d, !.store = store]

\* Faulty variant of SetupAfterConnect: no if (existingHash) branch.
SetupAfterConnectAlwaysPrompts(d, store) ==
    \E password \in Passwords :
        IF password = "" \/ Len(password) < MinPasswordLength
        THEN /\ out' = DevResponse(d, "prompt", password, "setup_password",
                                   "too_short", {}, 0, "all", store)
             /\ dev' = [dev EXCEPT ![d] = Idle]
        ELSE /\ dev' = [dev EXCEPT ![d] = [Idle EXCEPT !.pc = "distinct",
                                                       !.password = password]]
             /\ out' = NoOut

\* setup_password after connectDB: the already-set-up branch, or the two
\* prompts and their checks.
SetupAfterConnect(d, store) ==
    IF GetStoredHash(file[d]) # NoHash
    THEN /\ dev' = [dev EXCEPT ![d] = [Idle EXCEPT !.pc = "summary"]]
         /\ out' = NoOut
    ELSE \E password \in Passwords, confirm \in Passwords :
            IF password = "" \/ Len(password) < MinPasswordLength
            THEN /\ out' = DevResponse(d, "prompt", password, "setup_password",
                                       "too_short", {}, 0, "all", store)
                 /\ dev' = [dev EXCEPT ![d] = Idle]
            ELSE IF password # confirm
            THEN /\ out' = DevResponse(d, "prompt", password, "setup_password",
                                       "mismatch", {}, 0, "all", store)
                 /\ dev' = [dev EXCEPT ![d] = Idle]
            ELSE /\ dev' = [dev EXCEPT ![d] = [Idle EXCEPT !.pc = "distinct",
                                                           !.password = password]]
                 /\ out' = NoOut

\* setup_password is called on machine d.
SetupPasswordStart(d) ==
    /\ dev[d].pc = "idle"
    /\ IF dbConnected[d]
       THEN SetupAfterConnect(d, FALSE)
       ELSE /\ dev' = [dev EXCEPT ![d] = [Idle EXCEPT !.pc = "connectDB"]]
            /\ out' = NoOut
    /\ fault' = FALSE
    /\ UNCHANGED <<tasks, file, dbConnected, mcpVars, restVars, call>>

\* Faulty variant of TaskToolStart: no if (!userId) return notSetupResponse().
TaskToolStartUnguarded(d) ==
    /\ dev[d].pc = "idle"
    /\ dev' = [dev EXCEPT ![d] =
                [Idle EXCEPT !.pc = IF dbConnected[d] THEN "op"
                                    ELSE "connectTask"]]
    /\ out' = NoOut
    /\ fault' = FALSE
    /\ UNCHANGED <<tasks, file, dbConnected, mcpVars, restVars, call>>

\* add_task, list_tasks, complete_task, delete_task or clear_done is called:
\* getLocalUserId, notSetupResponse, connectDB.
TaskToolStart(d) ==
    /\ dev[d].pc = "idle"
    /\ IF GetLocalUserId(d) = NoHash
       THEN /\ \E tool \in TaskTools :
                out' = DevResponse(d, "idle", "", tool, "not_set_up", {}, 0,
                                   "all", FALSE)
            /\ UNCHANGED dev
       ELSE /\ dev' = [dev EXCEPT ![d] =
                    [Idle EXCEPT !.pc = IF dbConnected[d] THEN "op"
                                        ELSE "connectTask"]]
            /\ out' = NoOut
    /\ fault' = FALSE
    /\ UNCHANGED <<tasks, file, dbConnected, mcpVars, restVars, call>>

\* reset_password
ResetPasswordStep(d) ==
    /\ dev[d].pc = "idle"
    /\ IF GetStoredHash(file[d]) = NoHash
       THEN /\ out' = DevResponse(d, "idle", "", "reset_password",
                                  "nothing_saved", {}, 0, "all", FALSE)
            /\ UNCHANGED file
       ELSE /\ out' = DevResponse(d, "idle", "", "reset_password",
                                  "password_cleared", {}, 0, "all", FALSE)
            /\ file' = [file EXCEPT ![d] = ClearHash(file[d]).file]
    /\ fault' = FALSE
    /\ UNCHANGED <<tasks, dbConnected, dev, mcpVars, restVars>>

ResetPassword(d) == ResetPasswordStep(d) /\ UNCHANGED call

\* lib/db.js connectDB: await mongoose.connect(uri) returns; connected = true.
DevConnect(d) ==
    /\ dev[d].pc \in {"connectDB", "connectTask"}
    /\ dbConnected' = [dbConnected EXCEPT ![d] = TRUE]
    /\ IF dev[d].pc = "connectDB"
       THEN SetupAfterConnect(d, TRUE)
       ELSE /\ dev' = [dev EXCEPT ![d].pc = "op"]
            /\ out' = NoOut
    /\ fault' = FALSE
    /\ UNCHANGED <<tasks, file, mcpVars, restVars, call>>

\* setup_password, already set up: the three counts and the summary.
SetupSummary(d) ==
    /\ dev[d].pc = "summary"
    /\ out' = DevResponse(d, "summary", "", "setup_password", "already_saved",
                          {}, CountAll(tasks, GetStoredHash(file[d])), "all", TRUE)
    /\ dev' = [dev EXCEPT ![d] = Idle]
    /\ fault' = FALSE
    /\ UNCHANGED <<tasks, file, dbConnected, mcpVars, restVars, call>>

\* setup_password: Task.distinct, the scan, then saveHash(matchedHash), or
\* hashPassword, saveHash(newHash) and the answer to a brand new user.
SetupResolveStep(d) ==
    /\ dev[d].pc = "distinct"
    /\ \E allHashes \in Orderings(DistinctUserIds(tasks)) :
        LET res == SetupScan(dev[d].password, allHashes,
                             FreshSalt(dev[d].password))
            seen == [Resolved("dev", dev[d], allHashes, res) EXCEPT !.who = d]
        IN  /\ file' = [file EXCEPT ![d] = SaveHash(file[d], res.userId)]
            /\ IF res.minted
               THEN /\ out' = [seen EXCEPT !.tool = "setup_password",
                                           !.kind = "password_set"]
                    /\ dev' = [dev EXCEPT ![d] = Idle]
               ELSE /\ out' = seen
                    /\ dev' = [dev EXCEPT ![d].pc = "restored"]
    /\ fault' = FALSE
    /\ UNCHANGED <<tasks, dbConnected, mcpVars, restVars>>

SetupResolve(d) == SetupResolveStep(d) /\ UNCHANGED call

\* setup_password, returning user: the two counts and the welcome back.
SetupRestored(d) ==
    /\ dev[d].pc = "restored"
    /\ out' = DevResponse(d, "restored", dev[d].password, "setup_password",
                          "welcome_back", {},
                          CountAll(tasks, GetStoredHash(file[d])), "all", TRUE)
    /\ dev' = [dev EXCEPT ![d] = Idle]
    /\ fault' = FALSE
    /\ UNCHANGED <<tasks, file, dbConnected, mcpVars, restVars, call>>

\* The store call of a task tool, with userId = getLocalUserId().
DevOp(d) ==
    /\ dev[d].pc = "op"
    /\ \E tool \in TaskTools :
        \E o \in TaskTool(tool, tasks, GetLocalUserId(d)) :
            /\ tasks' = o.tasks
            /\ out' = DevResponse(d, "op", "", tool, o.kind, o.docs, o.n,
                                  o.filter, TRUE)
    /\ dev' = [dev EXCEPT ![d] = Idle]
    /\ fault' = FALSE
    /\ UNCHANGED <<file, dbConnected, mcpVars, restVars, call>>

\* The store call the tool awaits throws: the tool call fails.
DevStoreError(d) ==
    /\ dev[d].pc \in {"connectDB", "connectTask", "summary", "distinct",
                      "restored", "op"}
    /\ fault' = TRUE
    /\ out' = DevResponse(d, dev[d].pc, dev[d].password, "none", "tool_error",
                          {}, 0, "all", TRUE)
    /\ dev' = [dev EXCEPT ![d] = Idle]
    /\ UNCHANGED <<tasks, file, dbConnected, mcpVars, restVars, call>>

\* ---------------------------------------------------------------- part_000
\* The stdio server that takes the password as an argument of every tool.
\* getUserId(hash): the stored hash is the userId.
GetUserId(hash) == hash

\* Faulty variant of GetAuthenticatedUser: the password is not verified.
GetAuthenticatedUserNoVerify(f, password) ==
    IF GetStoredHash(f) = NoHash
    THEN [userId |-> NoHash, error |-> "no_password_set"]
    ELSE [userId |-> GetUserId(GetStoredHash(f)), error |-> "none"]

\* getAuthenticatedUser(password): { userId, error }
GetAuthenticatedUser(f, password) ==
    LET storedHash == GetStoredHash(f)
    IN  IF storedHash = NoHash
        THEN [userId |-> NoHash, error |-> "no_password_set"]
        ELSE IF ~BcryptCompare(password, storedHash)
        THEN [userId |-> NoHash, error |-> "wrong_password"]
        ELSE [userId |-> GetUserId(storedHash), error |-> "none"]

\* The _id values a caller may pass.
Ids == 1..MaxTasks

\* new Date().toISOString() when task t is saved: the time of now, which is
\* later than the completedAt t carries (times after the first completion
\* are not told apart).
NewDate(t) == IF t.completedAt = "null" THEN "iso" ELSE "later"

\* complete_task: findOne by { _id, userId } (whether completed or not), else
\* by { userId, completed: false, title }, else nothing; then task.completed
\* = true, task.completedAt = new Date().toISOString() and task.save().
V2CompleteTask(ts, userId) ==
    UNION {
        IF found = {}
        THEN {Outcome(ts, "not_found", {}, 0)}
        ELSE {Outcome((ts \ {t}) \cup
                        {[t EXCEPT !.completed = TRUE,
                                   !.completedAt = NewDate(t)]},
                      "completed",
                      {[t EXCEPT !.completed = TRUE,
                                 !.completedAt = NewDate(t)]},
                      0) : t \in found}
        : found \in
            {{t \in ts : t.id = id /\ t.userId = userId} : id \in Ids}
            \cup {{t \in ts : /\ t.userId = userId
                              /\ ~t.completed
                              /\ Matches(title, t.title)} : title \in Patterns}
            \cup {{}}}

\* delete_task: findOneAndDelete by { _id, userId }, else by { userId, title }
V2DeleteTask(ts, userId) ==
    UNION {
        IF found = {}
        THEN {Outcome(ts, "not_found", {}, 0)}
        ELSE {Outcome(ts \ {t}, "deleted", {}, 0) : t \in found}
        : found \in
            {{t \in ts : t.id = id /\ t.userId = userId} : id \in Ids}
            \cup {{t \in ts : t.userId = userId /\ Matches(title, t.title)} :
                    title \in Patterns}
            \cup {{}}}

V2TaskTool(tool, ts, userId) ==
    CASE tool = "add_task" -> AddTask(ts, userId)
      [] tool = "list_tasks" -> ListTasks(ts, userId)
      [] tool = "complete_task" -> V2CompleteTask(ts, userId)
      [] tool = "delete_task" -> V2DeleteTask(ts, userId)
      [] tool = "clear_done" -> ClearDone(ts, userId)

V2Response(d, l, tool, kind, docs, n, filter, store) ==
    [Response("v2", l, tool, kind, docs, n, filter)
        EXCEPT !.who = d, !.store = store]

\* setup_password after connectDB: the length check, then the first-time
\* branch (hashPassword, saveHash) or verifyPassword against the stored hash.
V2SetupPassword(d, l, store) ==
    IF Len(l.password) < MinPasswordLength
    THEN /\ out' = V2Response(d, l, "setup_password", "too_short", {}, 0,
                              "all", store)
         /\ dev' = [dev EXCEPT ![d] = Idle]
         /\ UNCHANGED file
    ELSE IF GetStoredHash(file[d]) = NoHash
    THEN LET hash == BcryptHash(l.password, FreshSalt(l.password))
         IN  /\ file' = [file EXCEPT ![d] = SaveHash(file[d], hash)]
             /\ out' = V2Response(d, [l EXCEPT !.userId = hash, !.minted = TRUE],
                                  "setup_password", "password_set", {}, 0,
                                  "all", store)
             /\ dev' = [dev EXCEPT ![d] = Idle]
    ELSE IF ~BcryptCompare(l.password, GetStoredHash(file[d]))
    THEN /\ out' = V2Response(d, l, "setup_password", "wrong_password", {}, 0,
                              "all", store)
         /\ dev' = [dev EXCEPT ![d] = Idle]
         /\ UNCHANGED file
    ELSE /\ dev' = [dev EXCEPT ![d] =
                [l EXCEPT !.pc = "v2count",
                          !.userId = GetUserId(GetStoredHash(file[d]))]]
         /\ out' = NoOut
         /\ UNCHANGED file

\* A task tool after connectDB: getAuthenticatedUser, its error or the userId.
V2Authenticate(d, l, store) ==
    LET a == GetAuthenticatedUser(file[d], l.password)
    IN  /\ IF a.error # "none"
           THEN /\ \E tool \in TaskTools :
                    out' = V2Response(d, l, tool, a.error, {}, 0, "all", store)
                /\ dev' = [dev EXCEPT ![d] = Idle]
           ELSE /\ dev' = [dev EXCEPT ![d] = [l EXCEPT !.pc = "v2op",
                                                       !.userId = a.userId]]
                /\ out' = NoOut
        /\ UNCHANGED file

V2AfterConnect(d, l, store) ==
    \/ V2SetupPassword(d, l, store)
    \/ V2Authenticate(d, l, store)

\* A tool of part_000 is called on machine d with a password.
V2Start(d) ==
    /\ dev[d].pc = "idle"
    /\ \E password \in Passwords :
        IF dbConnected[d]
        THEN V2AfterConnect(d, [Idle EXCEPT !.password = password], FALSE)
        ELSE /\ dev' = [dev EXCEPT ![d] = [Idle EXCEPT !.pc = "v2connect",
                                                       !.password = password]]
             /\ out' = NoOut
             /\ UNCHANGED file
    /\ fault' = FALSE
    /\ UNCHANGED <<tasks, dbConnected, mcpVars, restVars, call>>

V2Connect(d) ==
    /\ dev[d].pc = "v2connect"
    /\ dbConnected' = [dbConnected EXCEPT ![d] = TRUE]
    /\ V2AfterConnect(d, dev[d], TRUE)
    /\ fault' = FALSE
    /\ UNCHANGED <<tasks, mcpVars, restVars, call>>

\* setup_password, password verified: Task.countDocuments and the welcome.
V2Count(d) ==
    /\ dev[d].pc = "v2count"
    /\ out' = V2Response(d, dev[d], "setup_password", "welcome_back", {},
                         CountAll(tasks, dev[d].userId), "all", TRUE)
    /\ dev' = [dev EXCEPT ![d] = Idle]
    /\ fault' = FALSE
    /\ UNCHANGED <<tasks, file, dbConnected, mcpVars, restVars, call>>

\* The store calls of a task tool, with the userId of getAuthenticatedUser.
V2Op(d) ==
    /\ dev[d].pc = "v2op"
    /\ \E tool \in TaskTools :
        \E o \in V2TaskTool(tool, tasks, dev[d].userId) :
            /\ tasks' = o.tasks
            /\ out' = V2Response(d, dev[d], tool, o.kind, o.docs, o.n,
                                 o.filter, TRUE)
    /\ dev' = [dev EXCEPT ![d] = Idle]
    /\ fault' = FALSE
    /\ UNCHANGED <<file, dbConnected, mcpVars, restVars, call>>

\* The store call the tool awaits throws: the tool call fails.
V2StoreError(d) ==
    /\ dev[d].pc \in {"v2connect", "v2count", "v2op"}
    /\ fault' = TRUE
    /\ out' = V2Response(d, dev[d], "none", "tool_error", {}, 0, "all", TRUE)
    /\ dev' = [dev EXCEPT ![d] = Idle]
    /\ UNCHANGED <<tasks, file, dbConnected, mcpVars, restVars, call>>

\* auth.json of machine d is damaged between two tool calls.
CorruptFile(d) ==
    /\ dev[d].pc = "idle"
    /\ \E data \in {Unparseable, NoHashField} :
        file' = [file EXCEPT ![d] = [exists |-> TRUE, hash |-> data]]
    /\ out' = NoOut
    /\ fault' = FALSE
    /\ UNCHANGED <<tasks, dbConnected, dev, mcpVars, restVars, call>>

\* ------------------------------------------------- lib/auth.js, called alone
\* The values a caller may hand to saveHash.
Saveable ==
    {BcryptHash(p, n) : p \in {"abcd", "wxyz"}, n \in 1..2} \cup {EmptyString}

\* The call just made on machine d, what the file held before it, and the
\* same of the call before.
Called(op, d, arg, ret, threw) ==
    [op |-> op, dev |-> d, arg |-> arg, ret |-> ret, threw |-> threw,
     had |-> file[d].hash,
     prev |-> call.op, prevDev |-> call.dev, prevArg |-> call.arg,
     prevHad |-> call.had]

CallGetStoredHash(d) ==
    /\ call' = Called("getStoredHash", d, NoHash, GetStoredHash(file[d]), FALSE)
    /\ UNCHANGED <<tasks, file, dbConnected, dev, mcpVars, restVars, out, fault>>

CallSaveHash(d) ==
    /\ \E hash \in Saveable :
        /\ file' = [file EXCEPT ![d] = SaveHash(file[d], hash)]
        /\ call' = Called("saveHash", d, hash, NoHash, FALSE)
    /\ UNCHANGED <<tasks, dbConnected, dev, mcpVars, restVars, out, fault>>

\* saveHash(hash) cut short (the process is killed, the disk is full):
\* writeFileSync opens auth.json itself with truncation and writes the text
\* in place, so the file is left as it was (the open failed), empty or with
\* a part of the text (neither parses), or with all of it.
SaveHashInterrupted(f, hash) ==
    {f, [exists |-> TRUE, hash |-> Unparseable], SaveHash(f, hash)}

CallSaveHashInterrupted(d) ==
    /\ \E hash \in Saveable :
        \E g \in SaveHashInterrupted(file[d], hash) :
            /\ file' = [file EXCEPT ![d] = g]
            /\ call' = Called("saveHash", d, hash, NoHash, TRUE)
    /\ UNCHANGED <<tasks, dbConnected, dev, mcpVars, restVars, out, fault>>

CallClearHash(d) ==
    /\ file' = [file EXCEPT ![d] = ClearHash(file[d]).file]
    /\ call' = Called("clearHash", d, NoHash, NoHash, ClearHash(file[d]).threw)
    /\ UNCHANGED <<tasks, dbConnected, dev, mcpVars, restVars, out, fault>>

\* ------------------------------------------------------------------ system
Init ==
    /\ tasks = {}
    /\ connected = FALSE
    /\ req = [r \in Req |-> Idle]
    /\ restConnected = FALSE
    /\ rest = Idle
    /\ file = [d \in Dev |-> NoFile]
    /\ dbConnected = [d \in Dev |-> FALSE]
    /\ dev = [d \in Dev |-> Idle]
    /\ out = NoOut
    /\ fault = FALSE
    /\ call = NoCall

\* The JSON-RPC handler under concurrent invocations.
Next ==
    \E r \in Req :
        \/ HandlerStart(r)
        \/ HandlerConnect(r)
        \/ HandlerResolve(r)
        \/ HandlerExec(r)
        \/ HandlerStoreError(r)

Spec == Init /\ [][Next]_vars

\* The stdio server on two machines that share the store.
NextCached ==
    \E d \in Dev :
        \/ SetupPasswordStart(d)
        \/ TaskToolStart(d)
        \/ ResetPassword(d)
        \/ DevConnect(d)
        \/ SetupSummary(d)
        \/ SetupResolve(d)
        \/ SetupRestored(d)
        \/ DevOp(d)
        \/ DevStoreError(d)

SpecCached == Init /\ [][NextCached]_vars

\* The three servers against one store, one call at a time: a call starts
\* when no other is in progress.
AllIdle ==
    /\ \A r \in Req : req[r].pc = "idle"
    /\ rest.pc = "idle"
    /\ \A d \in Dev : dev[d].pc = "idle"

NextSeq ==
    \/ AllIdle /\ HandlerStart(1)
    \/ HandlerConnect(1)
    \/ HandlerResolve(1)
    \/ HandlerExec(1)
    \/ HandlerStoreError(1)
    \/ AllIdle /\ RestStart
    \/ RestConnect
    \/ RestScan
    \/ RestExec
    \/ RestStoreError
    \/ AllIdle /\ SetupPasswordStart(1)
    \/ AllIdle /\ TaskToolStart(1)
    \/ AllIdle /\ ResetPassword(1)
    \/ DevConnect(1)
    \/ SetupSummary(1)
    \/ SetupResolve(1)
    \/ SetupRestored(1)
    \/ DevOp(1)
    \/ DevStoreError(1)

SpecSeq == Init /\ [][NextSeq]_vars

\* part_000 on two machines that share the store.
NextV2 ==
    \E d \in Dev :
        \/ V2Start(d)
        \/ V2Connect(d)
        \/ V2Count(d)
        \/ V2Op(d)
        \/ V2StoreError(d)

SpecV2 == Init /\ [][NextV2]_vars

\* The caller has the response of its call and no call is in progress.
Quiet == AllIdle /\ out = NoOut

\* The caller takes the response (or the scan is over and its call ended).
TakeResponse ==
    /\ AllIdle
    /\ out # NoOut
    /\ out' = NoOut
    /\ fault' = FALSE
    /\ UNCHANGED <<tasks, mcpVars, restVars, devVars, call>>

\* The JSON-RPC handler and the two stdio servers against one store, called
\* by one caller that makes a call when it has the response of the one
\* before: machine 1 runs server.js, machine 2 runs part_000.
NextAll ==
    \/ Quiet /\ HandlerStart(1)
    \/ HandlerConnect(1)
    \/ HandlerResolve(1)
    \/ HandlerExec(1)
    \/ HandlerStoreError(1)
    \/ Quiet /\ SetupPasswordStart(1)
    \/ Quiet /\ TaskToolStart(1)
    \/ Quiet /\ ResetPassword(1)
    \/ DevConnect(1)
    \/ SetupSummary(1)
    \/ SetupResolve(1)
    \/ SetupRestored(1)
    \/ DevOp(1)
    \/ DevStoreError(1)
    \/ Quiet /\ V2Start(2)
    \/ V2Connect(2)
    \/ V2Count(2)
    \/ V2Op(2)
    \/ V2StoreError(2)
    \/ TakeResponse

SpecAll == Init /\ [][NextAll]_vars

\* reset_password and the saveHash step of setup_password, with the call of
\* clearHash or saveHash they make kept in the record of the cache calls.
ResetPasswordLogged(d) ==
    /\ ResetPasswordStep(d)
    /\ call' = IF GetStoredHash(file[d]) = NoHash THEN call
               ELSE Called("clearHash", d, NoHash, NoHash, FALSE)

SetupResolveLogged(d) ==
    /\ SetupResolveStep(d)
    /\ call' = Called("saveHash", d, file'[d].hash, NoHash, FALSE)

\* server.js on machine 1, called by one caller that makes a call when it
\* has the response of the one before; the cache writes are recorded.
NextReset ==
    \/ Quiet /\ SetupPasswordStart(1)
    \/ Quiet /\ TaskToolStart(1)
    \/ Quiet /\ ResetPasswordLogged(1)
    \/ DevConnect(1)
    \/ SetupSummary(1)
    \/ SetupResolveLogged(1)
    \/ SetupRestored(1)
    \/ DevOp(1)
    \/ DevStoreError(1)
    \/ TakeResponse

SpecReset == Init /\ [][NextReset]_vars

\* The stdio server on two machines whose auth.json may get damaged.
NextCorrupt ==
    \E d \in Dev :
        \/ SetupPasswordStart(d)
        \/ TaskToolStart(d)
        \/ ResetPassword(d)
        \/ DevConnect(d)
        \/ SetupSummary(d)
        \/ SetupResolve(d)
        \/ SetupRestored(d)
        \/ DevOp(d)
        \/ DevStoreError(d)
        \/ CorruptFile(d)

SpecCorrupt == Init /\ [][NextCorrupt]_vars

\* The cache functions of lib/auth.js called in any order.
NextAuth ==
    \E d \in Dev :
        \/ CallGetStoredHash(d)
        \/ CallSaveHash(d)
        \/ CallClearHash(d)

SpecAuth == Init /\ [][NextAuth]_vars

\* The event of the step just taken is read before the next step is taken.
TakeEvent ==
    /\ out # NoOut
    /\ out' = NoOut
    /\ fault' = FALSE
    /\ UNCHANGED <<tasks, mcpVars, restVars, devVars, call>>

\* The JSON-RPC handler under concurrent invocations, list_tasks one await
\* at a time: a list_tasks call arrives when no call is in progress (slot
\* 1), and calls of the other tools arrive while it is in progress (slot 2).
NextList ==
    \/ out = NoOut /\ AllIdle /\ HandlerStart(1)
    \/ out = NoOut /\ HandlerStart(2)
    \/ \E r \in Req :
        \/ out = NoOut /\ HandlerConnect(r)
        \/ out = NoOut /\ HandlerResolve(r)
    \/ out = NoOut /\ HandlerExecOther(2)
    \/ out = NoOut /\ ListFind(1)
    \/ out = NoOut /\ ListCountTotal(1)
    \/ out = NoOut /\ ListCountPending(1)
    \/ out = NoOut /\ ListCountCompleted(1)
    \/ TakeEvent

SpecList == Init /\ [][NextList]_vars

\* The cache functions, where a saveHash may be cut short.
NextSave ==
    \E d \in Dev :
        \/ CallGetStoredHash(d)
        \/ CallSaveHash(d)
        \/ CallSaveHashInterrupted(d)
        \/ CallClearHash(d)

SpecSave == Init /\ [][NextSave]_vars

\* ------------------------------------------------------------- properties
\* The step just taken ran an identity scan.
Scanned == out.kind \in {"resolved", "password_set"}

\* The candidates of the scan just run that verify against its password.
Verifying == {out.allHashes[i] : i \in
                {j \in 1..Len(out.allHashes) :
                    BcryptCompare(out.password, out.allHashes[j])}}

Candidates == {out.allHashes[i] : i \in 1..Len(out.allHashes)}

\* C1: whenever a scan (resolveUserId, the scan of setup_password, the
\* x-password scan) runs over candidates of which some verify against the
\* password, it hashes nothing and returns one of the verifying candidates:
\* exactly H when H is the one that verifies, wherever H stands among the
\* candidates and however many candidates do not match.
ResolveReturnsExisting ==
    (Scanned /\ Verifying # {}) =>
        /\ ~out.minted
        /\ out.userId \in Verifying
        /\ out.kind = "resolved"

\* A scan found H behind a candidate that does not match.
ResolveFoundSecond ==
    /\ Scanned
    /\ Len(out.allHashes) = 2
    /\ ~BcryptCompare(out.password, out.allHashes[1])
    /\ out.userId = out.allHashes[2]
    /\ out.compares = 2

\* C2: whenever a scan runs over n >= 0 candidates none of which verifies
\* against the password, it returns a newly made hash that verifies against
\* the password and is none of the candidates.
ResolveMintsFresh ==
    (Scanned /\ Verifying = {}) =>
        /\ out.minted
        /\ BcryptCompare(out.password, out.userId)
        /\ out.userId \notin Candidates

\* A scan went through two candidates, matched none and made a new hash.
ResolveMintedPastTwo ==
    /\ Scanned
    /\ Len(out.allHashes) = 2
    /\ Verifying = {}
    /\ out.minted
    /\ out.compares = 2

\* The owner identifiers that are stored: userIds of tasks, cache files.
StoredIds ==
    {h \in {t.userId : t \in tasks} \cup {file[d].hash : d \in Dev} : IsHash(h)}

\* C3: at every reachable state at most one stored owner identifier (userId
\* of a task, or hash in a machine's cache file) verifies against any one
\* password.
OneStoredIdPerSecret ==
    \A password \in Passwords :
        Cardinality({h \in StoredIds : BcryptCompare(password, h)}) <= 1

\* C4: from an empty store, add_task with a valid password creates exactly
\* one task, under a new hash of that password; and list_tasks with the
\* password of the owner of the store's only task resolves to that task's
\* userId, hashes nothing, and returns exactly that task.
AddThenListReturnsTheTask ==
    /\ (/\ out.kind = "task_created"
        /\ out.src \in {"mcp", "rest"}
        /\ out.minted
        /\ Cardinality(tasks) = 1)
            => /\ tasks = out.docs
               /\ \A t \in tasks : /\ t.userId = out.userId
                                   /\ BcryptCompare(out.password, t.userId)
                                   /\ ~t.completed
    /\ (/\ out.kind = "list"
        /\ out.src \in {"mcp", "rest"}
        /\ out.filter = "all"
        /\ Cardinality(tasks) = 1
        /\ \A t \in tasks : BcryptCompare(out.password, t.userId))
            => /\ ~out.minted
               /\ out.docs = tasks
               /\ out.n = 1
               /\ \A t \in tasks : t.userId = out.userId
    /\ (/\ out.kind \in {"task_created", "list"}
        /\ out.src = "dev"
        /\ out.filter = "all"
        /\ Cardinality(tasks) = 1
        /\ \A t \in tasks : t.userId = out.userId)
            => out.docs = tasks

\* list_tasks of the JSON-RPC handler returned the one task of the store to
\* the password it was created with.
ListedTheOneTask ==
    /\ out.kind = "list"
    /\ out.src = "mcp"
    /\ out.filter = "all"
    /\ out.password = "abcd"
    /\ Cardinality(tasks) = 1
    /\ out.docs = tasks
    /\ ~out.minted

\* C5: a call with a password of fewer than 4 characters ends in the
\* validation failure, and no step of it hashes, verifies or calls the store.
ShortSecretRejected ==
    (/\ out.src # "none"
     /\ out.password # ""
     /\ Len(out.password) < MinPasswordLength)
        => /\ out.kind = "too_short"
           /\ ~out.store
           /\ ~out.minted
           /\ out.compares = 0

\* The invocation with locals l, waiting for connectDB or for the distinct
\* query, takes the step to m in which that call throws: it ends there.
Aborts(l, m) ==
    (fault' /\ l.pc \in {"connectDB", "distinct"} /\ m # l) =>
        /\ m = Idle
        /\ out'.kind \in {"internal_error", "server_error", "tool_error"}
        /\ out'.password = l.password
        /\ ~out'.minted
        /\ tasks' = tasks
        /\ file' = file
        /\ HeldHashes' \subseteq HeldHashes

\* C6: when the distinct query (or the connect) of a resolution throws, the
\* caller gets the failure and the invocation ends: no hash is made, the
\* store and the cache files are as before, no tool is executed.
StoreFailureAborts ==
    [][/\ \A r \in Req : Aborts(req[r], req'[r])
       /\ Aborts(rest, rest')
       /\ \A d \in Dev : Aborts(dev[d], dev'[d])]_vars

\* The distinct query of resolveUserId threw while the store held a task.
ResolveFailed ==
    /\ fault
    /\ out.src = "mcp"
    /\ out.stage = "distinct"
    /\ out.kind = "internal_error"
    /\ tasks # {}

\* C7: hashes of two different passwords differ, a task is created under a
\* hash of the caller's password, and list_tasks returns only tasks whose
\* userId is the caller's, which verifies against the caller's password:
\* never a task created under another password.
OwnersIsolated ==
    /\ \A g, h \in HeldHashes :
        (IsHash(g) /\ IsHash(h) /\ g.secret # h.secret) => g # h
    /\ out.kind \in {"list", "task_created"} =>
        /\ \A t \in out.docs : t.userId = out.userId
        /\ out.src \in {"mcp", "rest"} =>
            /\ BcryptCompare(out.password, out.userId)
            /\ \A t \in out.docs : t.userId.secret = out.password

\* list_tasks returned the caller's task while the store also held a task
\* created under another password.
ListedBesideAnotherOwner ==
    /\ out.kind = "list"
    /\ out.docs # {}
    /\ \E t \in tasks : t.userId.secret # out.userId.secret

\* C8: two invocations that both resolved the same password by hashing it,
\* neither having executed its tool, hold two different hashes.
ConcurrentMintsDiffer ==
    \A r, q \in Req :
        (/\ r # q
         /\ req[r].pc = "exec" /\ req[q].pc = "exec"
         /\ req[r].minted /\ req[q].minted
         /\ req[r].password = req[q].password)
            => /\ req[r].userId # req[q].userId
               /\ BcryptCompare(req[r].password, req[r].userId)
               /\ BcryptCompare(req[q].password, req[q].userId)

\* The tasks of one password are split over two userIds.
SplitOwner ==
    \E t, u \in tasks :
        /\ t.userId # u.userId
        /\ t.userId.secret = u.userId.secret
        /\ BcryptCompare("abcd", t.userId) /\ BcryptCompare("abcd", u.userId)

\* C9: getStoredHash() right after saveHash(x) on the same machine returns x
\* for every hash x, whatever the file held before; getStoredHash() right
\* after clearHash() returns null.
CacheRoundTrip ==
    (call.op = "getStoredHash" /\ call.prevDev = call.dev) =>
        /\ (call.prev = "saveHash" /\ IsHash(call.prevArg))
                => call.ret = call.prevArg
        /\ call.prev = "clearHash" => call.ret = NoHash

\* getStoredHash() after saveHash(x) over a file that held another hash.
LoadedAfterOverwrite ==
    /\ call.op = "getStoredHash"
    /\ call.prev = "saveHash"
    /\ call.prevDev = call.dev
    /\ IsHash(call.prevArg)
    /\ IsHash(call.prevHad)
    /\ call.prevHad # call.prevArg
    /\ call.ret = call.prevArg

\* C10: clearHash() never throws and leaves no file, also when there was no
\* file; a second clearHash() leaves what the first left.
ClearHashIdempotent ==
    call.op = "clearHash" =>
        /\ ~call.threw
        /\ file[call.dev] = NoFile
        /\ GetStoredHash(file[call.dev]) = NoHash

\* clearHash() was called twice in a row on one machine.
ClearedTwice ==
    /\ call.op = "clearHash"
    /\ call.prev = "clearHash"
    /\ call.prevDev = call.dev
    /\ call.had = NoHash
    /\ file[call.dev] = NoFile

\* auth.json exists and does not hold a saved hash.
Corrupt(f) == f.exists /\ f.hash \in {Unparseable, NoHashField}

\* C11: over an auth.json that cannot be parsed or has no hash field,
\* getStoredHash returns null, and a tool of the stdio server answers what it
\* answers on a machine that was never set up: the task tools the
\* not-set-up response without a store call, reset_password that nothing is
\* saved, setup_password goes to its prompts.
CorruptActsUnactivated ==
    /\ \A d \in Dev : Corrupt(file[d]) => GetStoredHash(file[d]) = NoHash
    /\ (out.src = "dev" /\ Corrupt(file[out.who])) =>
        /\ out.kind \in {"not_set_up", "nothing_saved", "too_short",
                         "mismatch", "tool_error"}
        /\ out.userId = NoHash
        /\ out.tool \in TaskTools => (out.kind = "not_set_up" /\ ~out.store)
        /\ out.tool = "reset_password" => out.kind = "nothing_saved"
        /\ out.tool = "setup_password" => out.kind \in {"too_short", "mismatch"}
        /\ out.kind = "tool_error" => out.stage \in {"connectDB", "distinct"}

\* A task tool answered not-set-up over an unparseable auth.json while the
\* store held tasks.
NotSetUpOverCorrupt ==
    /\ out.src = "dev"
    /\ out.kind = "not_set_up"
    /\ file[out.who].hash = Unparseable
    /\ tasks # {}

\* C12: at every reachable state each auth.json is absent or holds a bcrypt
\* hash (made by hashPassword, or a userId of the store that the password
\* verified against), never the password the user entered.
CacheHoldsOnlyHashes ==
    \A d \in Dev :
        file[d].exists =>
            /\ IsHash(file[d].hash)
            /\ BcryptCompare(file[d].hash.secret, file[d].hash)
            /\ \A password \in Passwords :
                file[d].hash # [secret |-> password, salt |-> 0]

\* server.js has just saved a userId of the store as the hash of machine 1,
\* and machine 2 holds the hash part_000 made.
RestoredAndMadeHashes ==
    /\ out.src = "dev"
    /\ out.kind = "resolved"
    /\ ~out.minted
    /\ file[1].exists /\ file[1].hash = out.userId
    /\ file[2].exists

\* Machine d is ACTIVATED: getStoredHash() returns a hash.
Activated(d) == GetStoredHash(file[d]) # NoHash

\* The step just taken answered a tool call of server.js on machine d.
Answered(d) == out.src = "dev" /\ out.who = d

\* C13: a machine of server.js becomes ACTIVATED only by a setup_password
\* that saved a hash and UNACTIVATED again only by reset_password; a task
\* tool connects to the store and runs its store call only on an ACTIVATED
\* machine, and on an UNACTIVATED one answers not-set-up without a store
\* call, the store unchanged.
DeviceStatusGuardsStore ==
    [][\A d \in Dev :
        /\ dev[d].pc \in {"connectTask", "op"} => Activated(d)
        /\ (~Activated(d) /\ Activated(d)') =>
                /\ Answered(d)'
                /\ out'.kind \in {"password_set", "resolved"}
                /\ file'[d].hash = out'.userId
        /\ (Activated(d) /\ ~Activated(d)') =>
                /\ Answered(d)'
                /\ out'.kind = "password_cleared"
        /\ (Answered(d)' /\ out'.tool \in TaskTools) =>
                IF Activated(d)
                THEN /\ out'.kind # "not_set_up"
                     /\ out'.store
                     /\ out'.userId = GetStoredHash(file[d])
                ELSE /\ out'.kind = "not_set_up"
                     /\ ~out'.store
                     /\ tasks' = tasks
                     /\ dev'[d] = dev[d]]_vars

\* reset_password has just cleared the hash of a machine that owns a task.
ResetAfterUse ==
    /\ out.src = "dev"
    /\ out.kind = "password_cleared"
    /\ ~Activated(out.who)
    /\ \E t \in tasks : t.userId = out.userId

\* C14: while getStoredHash() returns a hash on a machine, no tool call that
\* starts there scans: nothing is pending at the distinct query; setup_password
\* answers the summary of the cached userId without a prompt, a distinct
\* query, a bcrypt call or a write to the file; the task tools act under the
\* cached hash; only reset_password changes the file.
CacheBypassesScan ==
    [][\A d \in Dev :
        (Activated(d) /\ dev[d].pc # "restored") =>
            /\ dev[d].pc # "distinct"
            /\ Answered(d)' =>
                /\ out'.kind \notin {"resolved", "password_set", "too_short",
                                     "mismatch", "welcome_back", "not_set_up"}
                /\ out'.allHashes = <<>>
                /\ out'.compares = 0
                /\ ~out'.minted
                /\ out'.userId = GetStoredHash(file[d])
                /\ out'.tool = "setup_password" =>
                    /\ out'.kind = "already_saved"
                    /\ out'.n = CountAll(tasks, GetStoredHash(file[d]))
                /\ \A t \in out'.docs : t.userId = GetStoredHash(file[d])
                /\ \A t \in tasks' \ tasks : t.userId = GetStoredHash(file[d])
                /\ file'[d] # file[d] => out'.kind = "password_cleared"]_vars

\* setup_password on a machine that holds a hash answered the summary of the
\* tasks of that hash.
SummaryFromCache ==
    /\ out.src = "dev"
    /\ out.kind = "already_saved"
    /\ out.n > 0
    /\ out.userId = GetStoredHash(file[out.who])

\* C15: a setup_password that follows a reset_password on the same machine,
\* with the password of the hash that was cleared, saves that same hash
\* again (so that list_tasks finds the tasks it found before).
ResetThenSetupReconnects ==
    (/\ call.op = "saveHash"
     /\ call.prev = "clearHash"
     /\ call.prevDev = call.dev
     /\ IsHash(call.prevHad)
     /\ BcryptCompare(call.prevHad.secret, call.arg))
        => call.arg = call.prevHad

\* C16: in part_000 any two machines that were set up with the same password
\* use the same userId for their tasks.
SamePasswordSameUserId ==
    \A d, e \in Dev :
        (/\ Activated(d) /\ Activated(e)
         /\ \E password \in Passwords :
                /\ BcryptCompare(password, GetStoredHash(file[d]))
                /\ BcryptCompare(password, GetStoredHash(file[e])))
            => GetUserId(GetStoredHash(file[d])) = GetUserId(GetStoredHash(file[e]))

\* C17: a step that answers complete_task, delete_task or clear_done run for
\* userId u leaves every task of another userId in the store exactly as it
\* was, and brings no task of another userId into it.
OwnerScopedMutation ==
    [][out'.tool \in {"complete_task", "delete_task", "clear_done"} =>
        /\ \A t \in tasks : t.userId # out'.userId => t \in tasks'
        /\ \A t \in tasks' : t.userId # out'.userId => t \in tasks
        /\ \A t \in out'.docs : t.userId = out'.userId]_vars

\* clear_done removed the caller's completed task and left the completed
\* task of another owner.
ClearedBesideAnotherOwner ==
    /\ out.tool = "clear_done"
    /\ out.kind = "cleared"
    /\ out.n = 1
    /\ \E t \in tasks : t.completed /\ t.userId # out.userId

\* C18: in every step, a task that is in the store before and after (same
\* _id) has the same userId before and after; a task enters the store with
\* a hash as userId.
UserIdImmutable ==
    [][/\ \A t \in tasks : \A u \in tasks' :
            u.id = t.id => u.userId = t.userId
       /\ \A u \in tasks' \ tasks :
            (\A t \in tasks : t.id # u.id) => IsHash(u.userId)]_vars

\* complete_task has just updated a task, which is still its owner's.
CompletedKeepsOwner ==
    /\ out.kind = "completed"
    /\ \E t \in tasks :
        /\ t \in out.docs
        /\ t.completed
        /\ t.userId = out.userId
        /\ IsHash(t.userId)

\* C19: in part_000, a step that answers add_task, list_tasks, complete_task,
\* delete_task or clear_done on a machine whose stored hash does not verify
\* the password of the call answers with the wrong-password error, returns
\* no task and no count, and leaves the store and the stored hash as they
\* were.
WrongPasswordLocked ==
    [][\A d \in Dev :
        (/\ out'.src = "v2"
         /\ out'.who = d
         /\ out'.tool \in TaskTools
         /\ GetStoredHash(file[d]) # NoHash
         /\ ~BcryptCompare(out'.password, GetStoredHash(file[d])))
        => /\ out'.kind = "wrong_password"
           /\ out'.docs = {}
           /\ out'.n = 0
           /\ tasks' = tasks
           /\ file' = file]_vars

\* A task tool was refused for a wrong password on a machine whose hash owns
\* a task.
RefusedOverOwnTasks ==
    /\ out.src = "v2"
    /\ out.tool \in TaskTools
    /\ out.kind = "wrong_password"
    /\ IsHash(GetStoredHash(file[out.who]))
    /\ ~BcryptCompare(out.password, GetStoredHash(file[out.who]))
    /\ \E t \in tasks : t.userId = GetStoredHash(file[out.who])

\* C20: no response holds a hash (the userId of a task document in its
\* body) or the message of a store error.
ResponsesHideHashAndErrors ==
    (out.src # "none" /\ out.kind # "resolved")
        => /\ \A t \in out.docs : ~IsHash(t.userId)
           /\ ~out.detail

\* C21: a scan verifies the candidates one after the other in the order of
\* the list and stops at the first that verifies: the candidates it verified
\* are the first out.compares of the list, none of them but the last
\* verifies, the last verifies unless the list is exhausted, and over an
\* empty list it verifies nothing and hashes.
ScanShortCircuits ==
    out.kind = "resolved" =>
        LET k == out.compares
            n == Len(out.allHashes)
        IN  /\ k \in 0..n
            /\ \A i \in 1..(k - 1) :
                    ~BcryptCompare(out.password, out.allHashes[i])
            /\ k < n => BcryptCompare(out.password, out.allHashes[k])
            /\ (k > 0 /\ BcryptCompare(out.password, out.allHashes[k]))
                    => ~out.minted /\ out.userId = out.allHashes[k]
            /\ (k = n /\ (k = 0 \/ ~BcryptCompare(out.password, out.allHashes[n])))
                    => out.minted
            /\ n = 0 => k = 0 /\ out.minted

\* A scan over two candidates stopped at the first.
StoppedAtFirstOfTwo ==
    /\ out.kind = "resolved"
    /\ Len(out.allHashes) = 2
    /\ out.compares = 1
    /\ out.userId = out.allHashes[1]

\* C22: for every password and the candidates the store holds, resolveUserId
\* returns the same userId whatever the order in which Task.distinct lists
\* the candidates.
ResolveOrderIndependent ==
    \A password \in Passwords \ {""} :
        \A a, b \in Orderings(DistinctUserIds(tasks)) :
            ResolveUserId(password, a, FreshSalt(password)).userId
                = ResolveUserId(password, b, FreshSalt(password)).userId

\* C23: a step that resolves a password or answers setup_password leaves
\* the tasks as they are; the candidates a scan gets from the store are the
\* userIds of the tasks of that moment; a userId comes to be among the
\* userIds of the tasks only in a step that answers add_task for it, and
\* ceases to be only in a step that deletes tasks of it.
ResolveNeverWrites ==
    [][/\ (out'.kind = "resolved" \/ out'.tool = "setup_password")
            => tasks' = tasks
       /\ out'.kind = "resolved"
            => {out'.allHashes[i] : i \in 1..Len(out'.allHashes)}
                    = {t.userId : t \in tasks}
       /\ \A h \in {t.userId : t \in tasks'} \ {t.userId : t \in tasks} :
            /\ out'.tool = "add_task"
            /\ out'.kind = "task_created"
            /\ out'.userId = h
       /\ \A h \in {t.userId : t \in tasks} \ {t.userId : t \in tasks'} :
            /\ out'.tool \in {"delete_task", "clear_done"}
            /\ out'.userId = h
            /\ \A t \in tasks' : t.userId # h]_vars

\* The JSON-RPC handler answered setup_password for a password that was
\* hashed anew, and the store holds a task of another owner only.
NewSecretSetUpBesideOwner ==
    /\ out.src = "mcp"
    /\ out.tool = "setup_password"
    /\ out.minted
    /\ IsHash(out.userId)
    /\ tasks # {}
    /\ \A t \in tasks : t.userId # out.userId

\* C24: the store starts empty, and after every step every stored task has
\* a completedAt exactly when it is completed; a task enters the store
\* pending and without completedAt; the completedAt of a stored task
\* changes only in a step that answers complete_task with that task.
CompletedAtTracksCompleted ==
    [][/\ \A u \in tasks' : (u.completedAt # "null") <=> u.completed
       /\ \A u \in tasks' :
            (\A t \in tasks : t.id # u.id)
                => ~u.completed /\ u.completedAt = "null"
       /\ \A t \in tasks : \A u \in tasks' :
            (u.id = t.id /\ u.completedAt # t.completedAt)
                => /\ out'.tool = "complete_task"
                   /\ out'.kind = "completed"
                   /\ u \in out'.docs]_vars

\* The store holds a completed task and a pending one.
CompletedBesidePending ==
    /\ \E t \in tasks : t.completed /\ t.completedAt # "null"
    /\ \E t \in tasks : ~t.completed /\ t.completedAt = "null"

\* C25: after a saveHash(x) that was cut short, getStoredHash() gives what
\* it gave before the call or x, and gives a hash when it gave one before.
SaveNeverCorrupts ==
    (call.op = "saveHash" /\ call.threw /\ IsHash(call.arg)) =>
        LET before == IF IsHash(call.had) THEN call.had ELSE NoHash
            now == GetStoredHash(file[call.dev])
        IN  /\ now \in {before, call.arg}
            /\ IsHash(before) => IsHash(now)

\* C26: a completed task that stays in the store stays completed and keeps
\* its completedAt; a step that answers complete_task with a task acted on
\* a task that was pending; a step that answers complete_task with the
\* error leaves the store as it was.
CompletionMonotonic ==
    [][/\ \A t \in tasks : \A u \in tasks' :
            (u.id = t.id /\ t.completed)
                => u.completed /\ u.completedAt = t.completedAt
       /\ (out'.tool = "complete_task" /\ out'.kind = "completed")
            => \A u \in out'.docs :
                    \E t \in tasks : t.id = u.id /\ ~t.completed
       /\ (out'.tool = "complete_task"
                /\ out'.kind \in {"no_pending_match", "not_found"})
            => tasks' = tasks]_vars

ConnectsOnce ==
    [][/\ connected =>
            \A r \in Req :
                req[r].pc # "connectDB" => req'[r].pc # "connectDB"
       /\ \A r \in Req :
            (fault' /\ req[r].pc = "connectDB" /\ req'[r].pc = "idle")
                => connected' = connected
       /\ ~(\E r, q \in Req :
                /\ r # q
                /\ req'[r].pc = "connectDB"
                /\ req'[q].pc = "connectDB")]_vars

\* C29: after a step that answers clear_done for owner u, with one call at
\* a time, u has no completed task, every task of u that was pending is
\* still there as it was, nothing is there that was not, and the count
\* reported is the number of tasks of u that were completed.
ClearDonePostcondition ==
    [][out'.kind = "cleared" =>
        /\ \A t \in tasks' : t.userId = out'.userId => ~t.completed
        /\ \A t \in tasks : (t.userId = out'.userId /\ ~t.completed)
                                => t \in tasks'
        /\ tasks' \subseteq tasks
        /\ out'.n = Cardinality({t \in tasks :
                        t.userId = out'.userId /\ t.completed})]_vars

\* clear_done removed the one completed task of an owner and left the
\* pending one.
ClearedOneKeptOne ==
    /\ out.kind = "cleared"
    /\ out.n = 1
    /\ \E t \in tasks : t.userId = out.userId /\ ~t.completed
    /\ \A t \in tasks : ~t.completed
====
